---- MODULE Spec2Model ----
(***************************************************************************)
(* A model of src/src/lambda.py: the event normalizer _parse_event, the    *)
(* router route, the response builder _response and the entry point        *)
(* lambda_handler, together with the caller that invokes the handler,      *)
(* keeps the returned response for a while and then drops it.              *)
(*                                                                         *)
(* Python values are tagged records.  A str is a sequence of code points,  *)
(* a bytes object a sequence of integers 0..255, a dict a sequence of      *)
(* <<key, value>> pairs in insertion order.  Text that leaves the program  *)
(* (the response body) is a TLA+ string.                                   *)
(***************************************************************************)
EXTENDS Integers, Sequences, FiniteSets, TLC

VARIABLES heap, pc, call, request, result

vars == <<heap, pc, call, request, result>>

(***************************************************************************)
(* Bounds of the model.                                                    *)
(***************************************************************************)
\* largest reading of the clock that datetime.now can return
MaxTime == 1
\* how many times the caller alters one returned response
MaxAlter == 1

(***************************************************************************)
(* Characters.  Ascii[c - 31] is the character of code point c, for c in   *)
(* 32..126; the grave accent, which a TLA+ string cannot hold, is written  *)
(* U+0060.                                                                 *)
(***************************************************************************)
Ascii ==
  <<" ", "!", "\"", "#", "$", "%", "&", "'", "(", ")", "*", "+", ",", "-",
    ".", "/", "0", "1", "2", "3", "4", "5", "6", "7", "8", "9", ":", ";",
    "<", "=", ">", "?", "@", "A", "B", "C", "D", "E", "F", "G", "H", "I",
    "J", "K", "L", "M", "N", "O", "P", "Q", "R", "S", "T", "U", "V", "W",
    "X", "Y", "Z", "[", "\\", "]", "^", "_", "U+0060", "a", "b", "c", "d", "e",
    "f", "g", "h", "i", "j", "k", "l", "m", "n", "o", "p", "q", "r", "s",
    "t", "u", "v", "w", "x", "y", "z", "{", "|", "}", "~">>

\* the code point of a printable ASCII character, and back
Ord(ch) == 31 + (CHOOSE i \in 1..Len(Ascii) : Ascii[i] = ch)

Chr(c) == Ascii[c - 31]

\* a str literal: the code points of a tuple of characters
S(t) == [i \in 1..Len(t) |-> Ord(t[i])]

RECURSIVE Text(_)
\* the TLA+ string of a printable ASCII str
Text(s) == IF s = <<>> THEN "" ELSE Chr(Head(s)) \o Text(Tail(s))

HexDigits ==
  <<"0", "1", "2", "3", "4", "5", "6", "7", "8", "9", "a", "b", "c", "d",
    "e", "f">>

Hex2(n) == HexDigits[((n \div 16) % 16) + 1] \o HexDigits[(n % 16) + 1]

Hex4(n) == Hex2(n \div 256) \o Hex2(n % 256)

RECURSIVE NatStr(_)
NatStr(n) ==
  IF n < 10 THEN HexDigits[n + 1]
  ELSE NatStr(n \div 10) \o HexDigits[(n % 10) + 1]

IntStr(n) == IF n < 0 THEN "-" \o NatStr(0 - n) ELSE NatStr(n)

(***************************************************************************)
(* Python values.                                                          *)
(***************************************************************************)
None == [t |-> "none", v |-> 0]

PyBool(b) == [t |-> "bool", v |-> b]

PyInt(n) == [t |-> "int", v |-> n]

PyStr(s) == [t |-> "str", v |-> s]

\* a str given by a literal of the source: printable ASCII with no quote
\* and no backslash, kept as a TLA+ string
PyText(s) == [t |-> "text", v |-> s]

PyBytes(b) == [t |-> "bytes", v |-> b]

PyList(l) == [t |-> "list", v |-> l]

PyDict(pairs) == [t |-> "dict", v |-> pairs]

EmptyDict == PyDict(<<>>)

EmptyStr == PyStr(<<>>)

\* an exception in flight: its class and str(e)
Raise(exc, msg) == [t |-> "raise", exc |-> exc, msg |-> msg]

\* the == of two str/None/int values
PyEq(a, b) == a.t = b.t /\ a.v = b.v

\* bool(x)
Truthy(x) ==
  CASE x.t = "none" -> FALSE
    [] x.t = "bool" -> x.v
    [] x.t = "int" -> x.v # 0
    [] OTHER -> Len(x.v) > 0

\* a or b
Or(a, b) == IF Truthy(a) THEN a ELSE b

\* the name type(x).__name__ shows in an AttributeError
TypeName(x) ==
  CASE x.t = "none" -> "NoneType"
    [] x.t = "text" -> "str"
    [] OTHER -> x.t

NoAttribute(x, attr) ==
  Raise("AttributeError",
        "'" \o TypeName(x) \o "' object has no attribute '" \o attr \o "'")

(***************************************************************************)
(* dict operations.                                                        *)
(***************************************************************************)
DictHas(d, k) == \E i \in 1..Len(d.v) : d.v[i][1] = k

\* d.get(k, dflt)
DictGet(d, k, dflt) ==
  IF DictHas(d, k)
  THEN d.v[CHOOSE i \in 1..Len(d.v) : d.v[i][1] = k][2]
  ELSE dflt

\* d[k] = x
DictSet(d, k, x) ==
  IF DictHas(d, k)
  THEN PyDict([i \in 1..Len(d.v) |->
                 IF d.v[i][1] = k THEN <<k, x>> ELSE d.v[i]])
  ELSE PyDict(Append(d.v, <<k, x>>))

RECURSIVE DictUpdate(_, _)
\* {**a, **b}
DictUpdate(a, b) ==
  IF b.v = <<>> THEN a
  ELSE DictUpdate(DictSet(a, b.v[1][1], b.v[1][2]), PyDict(Tail(b.v)))

(***************************************************************************)
(* str methods.                                                            *)
(***************************************************************************)
UpperChar(c) == IF c >= 97 /\ c <= 122 THEN c - 32 ELSE c

LowerChar(c) == IF c >= 65 /\ c <= 90 THEN c + 32 ELSE c

\* s.upper() and s.lower() on ASCII text
Upper(s) == [i \in 1..Len(s) |-> UpperChar(s[i])]

Lower(s) == [i \in 1..Len(s) |-> LowerChar(s[i])]

\* s.startswith(p)
StartsWith(s, p) == Len(s) >= Len(p) /\ SubSeq(s, 1, Len(p)) = p

\* the positions where sep occurs in s
Occurrences(s, sep) ==
  {i \in 1..(Len(s) - Len(sep) + 1) : SubSeq(s, i, i + Len(sep) - 1) = sep}

\* sep in s
Contains(s, sep) == Occurrences(s, sep) # {}

Min(set) == CHOOSE x \in set : \A y \in set : x <= y

\* s.split(sep, 1): cut at the first occurrence of sep
Split1(s, sep) ==
  IF Occurrences(s, sep) = {} THEN <<s>>
  ELSE LET i == Min(Occurrences(s, sep))
       IN <<SubSeq(s, 1, i - 1), SubSeq(s, i + Len(sep), Len(s))>>

(***************************************************************************)
(* str.encode("utf-8") and bytes.decode("utf-8").                          *)
(***************************************************************************)
Utf8Char(c) ==
  CASE c < 128 -> <<c>>
    [] c >= 128 /\ c < 2048 -> <<192 + (c \div 64), 128 + (c % 64)>>
    [] c >= 2048 /\ c < 65536 ->
         <<224 + (c \div 4096), 128 + ((c \div 64) % 64), 128 + (c % 64)>>
    [] OTHER ->
         <<240 + (c \div 262144), 128 + ((c \div 4096) % 64),
           128 + ((c \div 64) % 64), 128 + (c % 64)>>

RECURSIVE Utf8Bytes(_)
Utf8Bytes(s) ==
  IF s = <<>> THEN <<>> ELSE Utf8Char(Head(s)) \o Utf8Bytes(Tail(s))

\* s.encode("utf-8"); a lone surrogate cannot be encoded
Utf8Encode(s) ==
  IF \E i \in 1..Len(s) : s[i] >= 55296 /\ s[i] <= 57343
  THEN LET i == Min({j \in 1..Len(s) : s[j] >= 55296 /\ s[j] <= 57343})
       IN Raise("UnicodeEncodeError",
                "'utf-8' codec can't encode character '\\u" \o Hex4(s[i])
                  \o "' in position " \o NatStr(i - 1)
                  \o ": surrogates not allowed")
  ELSE PyBytes(Utf8Bytes(s))

IsCont(b) == b >= 128 /\ b <= 191

\* how many continuation bytes the lead byte b announces; -1: no lead byte
Utf8Need(b) ==
  CASE b < 128 -> 0
    [] b >= 194 /\ b <= 223 -> 1
    [] b >= 224 /\ b <= 239 -> 2
    [] b >= 240 /\ b <= 244 -> 3
    [] OTHER -> -1

\* the range the first continuation byte must lie in, after lead byte b
Utf8SecondOk(b, c) ==
  CASE b = 224 -> c >= 160 /\ c <= 191
    [] b = 237 -> c >= 128 /\ c <= 159
    [] b = 240 -> c >= 144 /\ c <= 191
    [] b = 244 -> c >= 128 /\ c <= 143
    [] OTHER -> IsCont(c)

Utf8Error(b, start, end, reason) ==
  Raise("UnicodeDecodeError",
        IF end - start = 1
        THEN "'utf-8' codec can't decode byte 0x" \o Hex2(b[start + 1])
               \o " in position " \o NatStr(start) \o ": " \o reason
        ELSE "'utf-8' codec can't decode bytes in position " \o NatStr(start)
               \o "-" \o NatStr(end - 1) \o ": " \o reason)

\* the number of well-formed bytes of the sequence that starts at i
\* (1-based), the lead byte included, up to the need+1 it should have
Utf8Good(b, i, need) ==
  LET ok(k) == /\ i + k <= Len(b)
               /\ IF k = 1 THEN Utf8SecondOk(b[i], b[i + k])
                  ELSE IsCont(b[i + k])
      bad == {k \in 1..need : ~ok(k)}
  IN IF bad = {} THEN need + 1 ELSE Min(bad)

Utf8Point(b, i, need) ==
  CASE need = 0 -> b[i]
    [] need = 1 -> (b[i] - 192) * 64 + (b[i + 1] - 128)
    [] need = 2 ->
         (b[i] - 224) * 4096 + (b[i + 1] - 128) * 64 + (b[i + 2] - 128)
    [] OTHER ->
         (b[i] - 240) * 262144 + (b[i + 1] - 128) * 4096
           + (b[i + 2] - 128) * 64 + (b[i + 3] - 128)

RECURSIVE Utf8DecodeFrom(_, _, _)
Utf8DecodeFrom(b, i, out) ==
  IF i > Len(b) THEN PyStr(out)
  ELSE LET need == Utf8Need(b[i])
       IN IF need = -1
          THEN Utf8Error(b, i - 1, i, "invalid start byte")
          ELSE LET good == Utf8Good(b, i, need)
               IN IF good = need + 1
                  THEN Utf8DecodeFrom(b, i + need + 1,
                                      Append(out, Utf8Point(b, i, need)))
                  ELSE IF i + good > Len(b)
                  THEN Utf8Error(b, i - 1, Len(b), "unexpected end of data")
                  ELSE Utf8Error(b, i - 1, i - 1 + good,
                                 "invalid continuation byte")

\* b.decode("utf-8")
Utf8Decode(b) == Utf8DecodeFrom(b, 1, <<>>)

(***************************************************************************)
(* base64.b64decode(s) of a str s, validate=False: binascii.a2b_base64 in  *)
(* its lenient mode.                                                       *)
(***************************************************************************)
B64Alphabet ==
  S(<<"A", "B", "C", "D", "E", "F", "G", "H", "I", "J", "K", "L", "M", "N",
      "O", "P", "Q", "R", "S", "T", "U", "V", "W", "X", "Y", "Z", "a", "b",
      "c", "d", "e", "f", "g", "h", "i", "j", "k", "l", "m", "n", "o", "p",
      "q", "r", "s", "t", "u", "v", "w", "x", "y", "z", "0", "1", "2", "3",
      "4", "5", "6", "7", "8", "9", "+", "/">>)

\* the six bits of a base64 digit; 64 for any other character
B64Value(c) ==
  IF \E i \in 1..64 : B64Alphabet[i] = c
  THEN (CHOOSE i \in 1..64 : B64Alphabet[i] = c) - 1
  ELSE 64

B64Pad == 61

\* the number of base64 digits in s
B64Digits(s) == Cardinality({i \in 1..Len(s) : B64Value(s[i]) < 64})

RECURSIVE A2bBase64(_, _, _, _, _, _)
\* the loop of a2b_base64: quad is the position in the group of four
\* digits, left the bits carried over, pads the padding seen in a row
A2bBase64(s, i, quad, left, pads, out) ==
  IF i > Len(s)
  THEN IF quad = 0 THEN PyBytes(out)
       ELSE IF quad = 1
       THEN Raise("binascii.Error",
                  "Invalid base64-encoded string: number of data characters ("
                    \o NatStr(B64Digits(s))
                    \o ") cannot be 1 more than a multiple of 4")
       ELSE Raise("binascii.Error", "Incorrect padding")
  ELSE IF s[i] = B64Pad
  THEN IF quad >= 2 /\ quad + pads + 1 >= 4
       THEN PyBytes(out)
       ELSE A2bBase64(s, i + 1, quad, left,
                      IF quad >= 2 THEN pads + 1 ELSE pads, out)
  ELSE LET d == B64Value(s[i])
       IN IF d >= 64 THEN A2bBase64(s, i + 1, quad, left, pads, out)
          ELSE CASE quad = 0 -> A2bBase64(s, i + 1, 1, d, 0, out)
                 [] quad = 1 ->
                      A2bBase64(s, i + 1, 2, d % 16, 0,
                                Append(out, left * 4 + (d \div 16)))
                 [] quad = 2 ->
                      A2bBase64(s, i + 1, 3, d % 4, 0,
                                Append(out, left * 16 + (d \div 4)))
                 [] OTHER ->
                      A2bBase64(s, i + 1, 0, 0, 0, Append(out, left * 64 + d))

\* base64.b64decode(x)
B64Decode(x) ==
  IF x.t # "str"
  THEN Raise("TypeError",
             "argument should be a bytes-like object or ASCII string, not '"
               \o TypeName(x) \o "'")
  ELSE IF \E i \in 1..Len(x.v) : x.v[i] >= 128
  THEN Raise("ValueError",
             "string argument should contain only ASCII characters")
  ELSE A2bBase64(x.v, 1, 0, 0, 0, <<>>)

(***************************************************************************)
(* json.dumps(x), with its defaults: ensure_ascii, ", " and ": ".          *)
(***************************************************************************)
\* one character of a str inside the quotes
JsonEscape(c) ==
  CASE c = 34 -> "\\\""
    [] c = 92 -> "\\\\"
    [] c = 10 -> "\\n"
    [] c = 13 -> "\\r"
    [] c = 9 -> "\\t"
    [] c = 8 -> "\\b"
    [] c = 12 -> "\\f"
    [] c >= 32 /\ c <= 126 /\ c # 34 /\ c # 92 -> Chr(c)
    [] c >= 65536 ->
         "\\u" \o Hex4(55296 + ((c - 65536) \div 1024))
           \o "\\u" \o Hex4(56320 + ((c - 65536) % 1024))
    [] OTHER -> "\\u" \o Hex4(c)

RECURSIVE JsonEscapeAll(_)
JsonEscapeAll(s) ==
  IF s = <<>> THEN "" ELSE JsonEscape(Head(s)) \o JsonEscapeAll(Tail(s))

RECURSIVE Dumps(_)
RECURSIVE DumpsItems(_)
RECURSIVE DumpsPairs(_)
DumpsItems(l) ==
  IF l = <<>> THEN ""
  ELSE Dumps(Head(l)) \o (IF Len(l) > 1 THEN ", " ELSE "")
         \o DumpsItems(Tail(l))

DumpsPairs(p) ==
  IF p = <<>> THEN ""
  ELSE Dumps(Head(p)[1]) \o ": " \o Dumps(Head(p)[2])
         \o (IF Len(p) > 1 THEN ", " ELSE "") \o DumpsPairs(Tail(p))

\* the text json.dumps(x) returns
Dumps(x) ==
  CASE x.t = "none" -> "null"
    [] x.t = "bool" -> IF x.v THEN "true" ELSE "false"
    [] x.t = "int" -> IntStr(x.v)
    [] x.t = "str" -> "\"" \o JsonEscapeAll(x.v) \o "\""
    [] x.t = "text" -> "\"" \o x.v \o "\""
    [] x.t = "list" -> "[" \o DumpsItems(x.v) \o "]"
    [] x.t = "dict" -> "{" \o DumpsPairs(x.v) \o "}"

(***************************************************************************)
(* json.loads(s) of a str s.  The scanner covers objects, arrays, strings  *)
(* with the two-character escapes, integers and the literals null, true    *)
(* and false; the body texts of the model stay inside this part of JSON.   *)
(***************************************************************************)
JsonFail == [ok |-> FALSE, v |-> None, i |-> 0]

JsonOk(x, i) == [ok |-> TRUE, v |-> x, i |-> i]

IsWs(c) == c \in {32, 9, 10, 13}

IsDigit(c) == c >= 48 /\ c <= 57

RECURSIVE SkipWs(_, _)
SkipWs(s, i) == IF i <= Len(s) /\ IsWs(s[i]) THEN SkipWs(s, i + 1) ELSE i

\* whether the text lit stands in s at position i
At(s, i, lit) ==
  i + Len(lit) - 1 <= Len(s) /\ SubSeq(s, i, i + Len(lit) - 1) = lit

\* the character an escape \c stands for; -1 when \c is no escape
Unescape(c) ==
  CASE c = 34 -> 34
    [] c = 92 -> 92
    [] c = 47 -> 47
    [] c = 98 -> 8
    [] c = 102 -> 12
    [] c = 110 -> 10
    [] c = 114 -> 13
    [] c = 116 -> 9
    [] OTHER -> -1

RECURSIVE ScanString(_, _, _)
\* py_scanstring, strict: i is the position after the opening quote
ScanString(s, i, out) ==
  IF i > Len(s) THEN JsonFail
  ELSE CASE s[i] = 34 -> JsonOk(PyStr(out), i + 1)
         [] s[i] = 92 ->
              IF i + 1 > Len(s) \/ Unescape(s[i + 1]) = -1 THEN JsonFail
              ELSE ScanString(s, i + 2, Append(out, Unescape(s[i + 1])))
         [] s[i] < 32 -> JsonFail
         [] OTHER -> ScanString(s, i + 1, Append(out, s[i]))

RECURSIVE ScanDigits(_, _, _)
ScanDigits(s, i, n) ==
  IF i <= Len(s) /\ IsDigit(s[i])
  THEN ScanDigits(s, i + 1, 10 * n + (s[i] - 48))
  ELSE [n |-> n, i |-> i]

\* the integer part -?(0|[1-9][0-9]*) of NUMBER_RE
ScanNumber(s, i) ==
  LET neg == s[i] = 45
      j == IF neg THEN i + 1 ELSE i
  IN IF j > Len(s) \/ ~IsDigit(s[j]) THEN JsonFail
     ELSE IF s[j] = 48 THEN JsonOk(PyInt(0), j + 1)
     ELSE LET d == ScanDigits(s, j, 0)
          IN JsonOk(PyInt(IF neg THEN 0 - d.n ELSE d.n), d.i)

RECURSIVE ScanOnce(_, _)
RECURSIVE ScanObject(_, _, _)
RECURSIVE ScanArray(_, _, _)
\* JSONObject after a value: e is at the closing brace or at a comma
ObjectEnd(s, e, d) ==
  IF e > Len(s) THEN JsonFail
  ELSE IF s[e] = 125 THEN JsonOk(d, e + 1)
  ELSE IF s[e] = 44 THEN ScanObject(s, SkipWs(s, e + 1), d)
  ELSE JsonFail

\* JSONObject after the colon: x is the scan of the value of key
ObjectValue(s, key, x, d) ==
  IF ~x.ok THEN JsonFail
  ELSE ObjectEnd(s, SkipWs(s, x.i), DictSet(d, key, x.v))

\* JSONObject after a key: c is where the colon must stand
ObjectColon(s, key, c, d) ==
  IF c > Len(s) \/ s[c] # 58 THEN JsonFail
  ELSE ObjectValue(s, key, ScanOnce(s, SkipWs(s, c + 1)), d)

\* JSONObject at a key: k is the scan of the key
ObjectKey(s, k, d) ==
  IF ~k.ok THEN JsonFail ELSE ObjectColon(s, k.v, SkipWs(s, k.i), d)

\* JSONObject after the opening brace or a comma: i is at the next key
ScanObject(s, i, d) ==
  IF i > Len(s) \/ s[i] # 34 THEN JsonFail
  ELSE ObjectKey(s, ScanString(s, i + 1, <<>>), d)

\* JSONArray after a value: e is at the closing bracket or at a comma
ArrayEnd(s, e, l) ==
  IF e > Len(s) THEN JsonFail
  ELSE IF s[e] = 93 THEN JsonOk(PyList(l), e + 1)
  ELSE IF s[e] = 44 THEN ScanArray(s, SkipWs(s, e + 1), l)
  ELSE JsonFail

\* JSONArray at a value: x is the scan of the value
ArrayValue(s, x, l) ==
  IF ~x.ok THEN JsonFail ELSE ArrayEnd(s, SkipWs(s, x.i), Append(l, x.v))

\* JSONArray after the opening bracket or a comma: i is at the next value
ScanArray(s, i, l) == ArrayValue(s, ScanOnce(s, i), l)

\* scan_once: the value that starts at position i
ScanOnce(s, i) ==
  IF i > Len(s) THEN JsonFail
  ELSE CASE s[i] = 34 -> ScanString(s, i + 1, <<>>)
         [] s[i] = 123 ->
              LET j == SkipWs(s, i + 1)
              IN IF j <= Len(s) /\ s[j] = 125 THEN JsonOk(EmptyDict, j + 1)
                 ELSE ScanObject(s, j, EmptyDict)
         [] s[i] = 91 ->
              LET j == SkipWs(s, i + 1)
              IN IF j <= Len(s) /\ s[j] = 93 THEN JsonOk(PyList(<<>>), j + 1)
                 ELSE ScanArray(s, j, <<>>)
         [] At(s, i, S(<<"n", "u", "l", "l">>)) -> JsonOk(None, i + 4)
         [] At(s, i, S(<<"t", "r", "u", "e">>)) -> JsonOk(PyBool(TRUE), i + 4)
         [] At(s, i, S(<<"f", "a", "l", "s", "e">>)) ->
              JsonOk(PyBool(FALSE), i + 5)
         [] s[i] = 45 \/ IsDigit(s[i]) -> ScanNumber(s, i)
         [] OTHER -> JsonFail

\* JSONDecoder.decode after the scan x: nothing but whitespace may follow
LoadsEnd(s, x) ==
  IF x.ok /\ SkipWs(s, x.i) > Len(s) THEN x.v
  ELSE Raise("json.JSONDecodeError", "invalid JSON")

\* json.loads(s): the value, or json.JSONDecodeError
Loads(s) == LoadsEnd(s, ScanOnce(s, SkipWs(s, 1)))

(***************************************************************************)
(* The str literals of lambda.py that the program compares or cuts.        *)
(***************************************************************************)
GET == PyStr(S(<<"G", "E", "T">>))

POST == PyStr(S(<<"P", "O", "S", "T">>))

PUT == PyStr(S(<<"P", "U", "T">>))

DELETE == PyStr(S(<<"D", "E", "L", "E", "T", "E">>))

OPTIONS == PyStr(S(<<"O", "P", "T", "I", "O", "N", "S">>))

Slash == PyStr(S(<<"/">>))

HealthPath == PyStr(S(<<"/", "h", "e", "a", "l", "t", "h">>))

EchoPath == PyStr(S(<<"/", "e", "c", "h", "o">>))

ItemsPrefix == S(<<"/", "i", "t", "e", "m", "s", "/">>)

ContentTypeKey ==
  S(<<"c", "o", "n", "t", "e", "n", "t", "-", "t", "y", "p", "e">>)

ApplicationJson ==
  S(<<"a", "p", "p", "l", "i", "c", "a", "t", "i", "o", "n", "/", "j", "s",
      "o", "n">>)

\* "Hello from Lambda webserver " and the waving hand U+1F44B
Greeting ==
  PyStr(S(<<"H", "e", "l", "l", "o", " ", "f", "r", "o", "m", " ", "L", "a",
            "m", "b", "d", "a", " ", "w", "e", "b", "s", "e", "r", "v", "e",
            "r", " ">>) \o <<128075>>)

\* "POST JSON to /echo and I'll send it back.", its apostrophe U+2019
EchoNote ==
  PyStr(S(<<"P", "O", "S", "T", " ", "J", "S", "O", "N", " ", "t", "o", " ",
            "/", "e", "c", "h", "o", " ", "a", "n", "d", " ", "I">>)
          \o <<8217>>
          \o S(<<"l", "l", " ", "s", "e", "n", "d", " ", "i", "t", " ", "b",
                 "a", "c", "k", ".">>))

(***************************************************************************)
(* The module-level dict CORS_HEADERS.  The heap is the sequence of the    *)
(* live dict objects that hold response headers; CORS_HEADERS is the       *)
(* address of the object the global name is bound to.                      *)
(***************************************************************************)
CORS_HEADERS == 1

CorsLiteral ==
  PyDict(<<<<"Access-Control-Allow-Origin", PyText("*")>>,
           <<"Access-Control-Allow-Methods",
             PyText("GET,POST,PUT,PATCH,DELETE,OPTIONS")>>,
           <<"Access-Control-Allow-Headers",
             PyText("Content-Type,Authorization,X-Requested-With")>> >>)

(***************************************************************************)
(* _response: the outcome holds the heap after the call and the value      *)
(* returned.  Envelope fields are Python values; headers is the address    *)
(* of the merged dict.                                                     *)
(***************************************************************************)
IsRaise(x) == x.t = "raise"

IsStr(x) == x.t \in {"str", "text"}

Done(h, ret) == [t |-> "done", heap |-> h, ret |-> ret]

Envelope(status, headers, body, is_base64) ==
  [t |-> "return", statusCode |-> status, headers |-> headers,
   body |-> body, isBase64Encoded |-> is_base64]

\* a variant of line 12 that leaves the base entries out: merged = headers or {}
Merged_HeadersOnly(h, headers) ==
  [heap |-> Append(h, Or(headers, EmptyDict)), addr |-> Len(h) + 1]

\* a variant of line 12 that updates the global in place:
\* merged = CORS_HEADERS; merged.update(headers or {})
Merged_InPlace(h, headers) ==
  [heap |-> [h EXCEPT ![CORS_HEADERS] =
                        DictUpdate(@, Or(headers, EmptyDict))],
   addr |-> CORS_HEADERS]

\* merged = {**CORS_HEADERS, **(headers or {})}: a new dict object
Merged(h, headers) ==
  [heap |-> Append(h, DictUpdate(h[CORS_HEADERS], Or(headers, EmptyDict))),
   addr |-> Len(h) + 1]

\* a variant of lines 15-16 without the isinstance test: json.dumps always
BodyText_DumpsAll(body) ==
  IF body.t = "none" THEN PyText(Dumps(PyText(""))) ELSE PyText(Dumps(body))

\* the body after lines 13-16
BodyText(body) ==
  LET b == IF body.t = "none" THEN PyText("") ELSE body
  IN IF ~IsStr(b) THEN PyText(Dumps(b)) ELSE b

_response(h, status, body, headers, is_base64) ==
  LET m == Merged(h, headers)
  IN Done(m.heap, Envelope(status, m.addr, BodyText(body), is_base64))

(***************************************************************************)
(* _parse_event.  An event is a dict with str keys; a key the event lacks  *)
(* is missing from the pairs.                                              *)
(***************************************************************************)
\* lines 30-35: the method before .upper()
ParseMethod(event) ==
  LET rc == DictGet(event, "requestContext", EmptyDict)
  IN IF rc.t # "dict" THEN NoAttribute(rc, "get")
     ELSE LET http == DictGet(rc, "http", EmptyDict)
          IN IF http.t # "dict" THEN NoAttribute(http, "get")
             ELSE Or(DictGet(http, "method", None),
                     DictGet(event, "httpMethod", GET))

\* lines 36-40
ParsePath(event) ==
  Or(DictGet(event, "rawPath", None),
     Or(DictGet(event, "path", None), Slash))

RECURSIVE LowerKeys(_, _)
\* the dict comprehension of line 43 over the pairs p
LowerKeys(p, d) ==
  IF p = <<>> THEN d
  ELSE LowerKeys(Tail(p), DictSet(d, Lower(Head(p)[1]), Head(p)[2]))

\* line 43
ParseHeaders(event) ==
  LET hs == Or(DictGet(event, "headers", None), EmptyDict)
  IN IF hs.t # "dict" THEN NoAttribute(hs, "items")
     ELSE LowerKeys(hs.v, EmptyDict)

\* lines 44-46
ParseQuery(event) ==
  LET query == Or(DictGet(event, "queryStringParameters", None), EmptyDict)
  IN IF query.t = "none" THEN EmptyDict ELSE query

\* lines 49-54
ParseBodyBytes(event) ==
  LET body_b64 == DictGet(event, "isBase64Encoded", PyBool(FALSE))
      body_raw == Or(DictGet(event, "body", None), EmptyStr)
  IN IF Truthy(body_b64) /\ Truthy(body_raw) THEN B64Decode(body_raw)
     ELSE IF body_raw.t = "str" THEN Utf8Encode(body_raw.v)
     ELSE Or(body_raw, PyBytes(<<>>))

\* line 61: the exceptions the except clause around json.loads catches
JsonCaught(e) == e.exc = "json.JSONDecodeError"

\* lines 61-62: the except clause turns what it catches into None
Swallow(x) == IF IsRaise(x) /\ JsonCaught(x) THEN None ELSE x

\* line 60: json.loads of the decoded text, when the decoding gave one
TryLoads(text) == IF IsRaise(text) THEN text ELSE Swallow(Loads(text.v))

\* lines 58-62, ctype being the content-type header
JsonOf(ctype, body_bytes) ==
  IF ctype.t # "str"
  THEN Raise("TypeError",
             "argument of type '" \o TypeName(ctype) \o "' is not iterable")
  ELSE IF Contains(ctype.v, ApplicationJson) /\ Truthy(body_bytes)
  THEN IF body_bytes.t # "bytes" THEN NoAttribute(body_bytes, "decode")
       ELSE TryLoads(Utf8Decode(body_bytes.v))
  ELSE None

\* lines 56-62
ParseBodyJson(headers, body_bytes) ==
  JsonOf(DictGet(headers, ContentTypeKey, EmptyStr), body_bytes)

\* line 64: method.upper()
UpperMethod(method) ==
  IF method.t # "str" THEN NoAttribute(method, "upper")
  ELSE PyStr(Upper(method.v))

Request(method, path, headers, query, body_bytes, body_json) ==
  [t |-> "ok", method |-> method, path |-> path, headers |-> headers,
   query |-> query, body_bytes |-> body_bytes, body_json |-> body_json]

\* line 64, once the body is decoded: the tuple, or the fault of
\* json.loads or of method.upper()
ParseEnd(event, upper, headers, body_bytes, body_json) ==
  IF IsRaise(body_json) THEN body_json
  ELSE IF IsRaise(upper) THEN upper
  ELSE Request(upper, ParsePath(event), headers, ParseQuery(event),
               body_bytes, body_json)

\* the statements of _parse_event in their order: the first fault ends it
ParseSteps(event, method, headers, body_bytes) ==
  IF IsRaise(method) THEN method
  ELSE IF IsRaise(headers) THEN headers
  ELSE IF IsRaise(body_bytes) THEN body_bytes
  ELSE ParseEnd(event, UpperMethod(method), headers, body_bytes,
                ParseBodyJson(headers, body_bytes))

_parse_event(event) ==
  ParseSteps(event, ParseMethod(event), ParseHeaders(event),
             ParseBodyBytes(event))

(***************************************************************************)
(* route.  Each rule is the guard of one if statement and the block under  *)
(* it; a block that ends without a return falls through to the rules       *)
(* below it.                                                               *)
(***************************************************************************)
NoMatch == [t |-> "nomatch"]

\* datetime.isoformat() of the clock reading now, in seconds after
\* 1970-01-01T00:00:00 UTC (now < 60)
IsoFormat(now) ==
  "1970-01-01T00:00:" \o NatStr(now \div 10) \o NatStr(now % 10) \o "+00:00"

HealthBody(now) ==
  PyDict(<<<<PyText("ok"), PyBool(TRUE)>>,
           <<PyText("time"), PyText(IsoFormat(now))>> >>)

HomeBody ==
  PyDict(<<<<PyText("message"), Greeting>>,
           <<PyText("paths"),
             PyList(<<PyText("/"), PyText("/health"), PyText("/echo"),
                      PyText("/items/{id}")>>)>> >>)

EchoBody(body_json) ==
  PyDict(<<<<PyText("received"), body_json>>, <<PyText("note"), EchoNote>> >>)

MissingIdBody == PyDict(<<<<PyText("error"), PyText("Missing item id")>> >>)

ItemBody(item_id) ==
  PyDict(<<<<PyText("id"), PyStr(item_id)>>,
           <<PyText("name"), PyStr(S(<<"I", "t", "e", "m", " ">>) \o item_id)>> >>)

UpdatedBody(item_id, body_json) ==
  PyDict(<<<<PyText("updated"), PyStr(item_id)>>,
           <<PyText("body"), body_json>> >>)

NotFoundBody(method, path) ==
  PyDict(<<<<PyText("error"), PyText("Not found")>>,
           <<PyText("method"), method>>, <<PyText("path"), path>> >>)

\* line 73
HealthRule(method, path) == PyEq(method, GET) /\ PyEq(path, HealthPath)

\* a variant of line 77 without the method test
HomeRule_AnyMethod(method, path) == PyEq(path, Slash)

\* line 77
HomeRule(method, path) == PyEq(method, GET) /\ PyEq(path, Slash)

\* a variant of line 84 without the method test
EchoRule_AnyMethod(method, path) == PyEq(path, EchoPath)

\* line 84
EchoRule(method, path) == PyEq(method, POST) /\ PyEq(path, EchoPath)

\* a variant of line 91 without the method test
ItemsRule_AnyMethod(method, path) == StartsWith(path.v, ItemsPrefix)

\* line 91, for a str path
ItemsRule(method, path) ==
  /\ StartsWith(path.v, ItemsPrefix)
  /\ \E m \in {GET, PUT, DELETE} : PyEq(method, m)

\* a variant of line 92 without maxsplit: path.split("/items/")[1]
ItemId_SplitAll(path) ==
  Split1(Split1(path.v, ItemsPrefix)[2], ItemsPrefix)[1]

\* line 92
ItemId(path) == Split1(path.v, ItemsPrefix)[2]

\* lines 93-100
ItemsBlock(h, method, item_id, body_json) ==
  IF item_id = <<>> THEN _response(h, 400, MissingIdBody, None, FALSE)
  ELSE IF PyEq(method, GET)
  THEN _response(h, 200, ItemBody(item_id), None, FALSE)
  ELSE IF PyEq(method, PUT)
  THEN _response(h, 200, UpdatedBody(item_id, body_json), None, FALSE)
  ELSE IF PyEq(method, DELETE)
  THEN _response(h, 204, PyText(""), None, FALSE)
  ELSE NoMatch

\* line 103
OptionsRule(method, path) == PyEq(method, OPTIONS)

\* the k-th if statement of route, k in 1..5
Rule(k, h, method, path, query, body_json, now) ==
  CASE k = 1 ->
         IF HealthRule(method, path)
         THEN _response(h, 200, HealthBody(now), None, FALSE)
         ELSE NoMatch
    [] k = 2 ->
         IF HomeRule(method, path)
         THEN _response(h, 200, HomeBody, None, FALSE)
         ELSE NoMatch
    [] k = 3 ->
         IF EchoRule(method, path)
         THEN _response(h, 200, EchoBody(body_json), None, FALSE)
         ELSE NoMatch
    [] k = 4 ->
         IF path.t # "str" THEN NoAttribute(path, "startswith")
         ELSE IF ItemsRule(method, path)
         THEN ItemsBlock(h, method, ItemId(path), body_json)
         ELSE NoMatch
    [] k = 5 ->
         IF OptionsRule(method, path)
         THEN _response(h, 204, PyText(""), None, FALSE)
         ELSE NoMatch

RECURSIVE RouteInOrder(_, _, _, _, _, _, _)
\* r is what one if statement gave: its return ends route, otherwise the
\* statements of rest are tried
FirstMatch(r, rest, h, method, path, query, body_json, now) ==
  IF r.t = "nomatch"
  THEN RouteInOrder(rest, h, method, path, query, body_json, now)
  ELSE r

\* the if statements numbered in order, tried one after the other, and
\* the 404 of line 107 after the last
RouteInOrder(order, h, method, path, query, body_json, now) ==
  IF order = <<>>
  THEN _response(h, 404, NotFoundBody(method, path), None, FALSE)
  ELSE FirstMatch(Rule(Head(order), h, method, path, query, body_json, now),
                  Tail(order), h, method, path, query, body_json, now)

\* the order in which lines 73-104 stand
RouteOrder == <<1, 2, 3, 4, 5>>

route(h, method, path, query, body_json, now) ==
  RouteInOrder(RouteOrder, h, method, path, query, body_json, now)

(***************************************************************************)
(* lambda_handler.                                                         *)
(***************************************************************************)
\* the classes the model raises; each derives from Exception
ExceptionClasses ==
  {"AttributeError", "TypeError", "ValueError", "binascii.Error",
   "UnicodeDecodeError", "UnicodeEncodeError", "json.JSONDecodeError"}

\* a variant of line 115 with a narrow clause: except KeyError
Caught_KeyErrorOnly(e) == e.exc = "KeyError"

\* line 115: except Exception
Caught(e) == e.exc \in ExceptionClasses

\* line 117
ErrorBody(e) ==
  PyDict(<<<<PyText("error"), PyText("Internal Server Error")>>,
           <<PyText("detail"), PyText(e.msg)>> >>)

\* line 114, req being what line 113 gave
RouteRequest(h, req, now) ==
  IF IsRaise(req) THEN req
  ELSE route(h, req.method, req.path, req.query, req.body_json, now)

\* the try block of lines 113-114: a Done or a raise
TryBlock(h, event, now) == RouteRequest(h, _parse_event(event), now)

\* lines 115-117, r being what the try block gave
Except(h, r) ==
  IF IsRaise(r) /\ Caught(r)
  THEN _response(h, 500, ErrorBody(r), None, FALSE)
  ELSE r

lambda_handler(h, event, now) == Except(h, TryBlock(h, event, now))

(***************************************************************************)
(* The events the gateway delivers.  Each field is drawn from a few        *)
(* values, Missing among them; an event holds the fields that are not      *)
(* Missing, in the order the gateway writes them.                          *)
(***************************************************************************)
Missing == [t |-> "missing", v |-> 0]

HttpOf(pairs) == PyDict(<<<<"http", PyDict(pairs)>> >>)

\* requestContext: missing, null, without http, without a method, with one
RequestContexts ==
  {Missing, None, PyDict(<<>>), HttpOf(<<>>),
   HttpOf(<<<<"method", PyStr(S(<<"o", "p", "t", "i", "o", "n", "s">>))>> >>)}

HttpMethods == {Missing, None, POST, PyStr(S(<<"p", "u", "t">>)), DELETE}

RawPaths ==
  {Missing, HealthPath, PyStr(S(<<"/", "i", "t", "e", "m", "s", "/", "7">>)),
   PyInt(5)}

Paths == {Missing, EchoPath, PyStr(ItemsPrefix)}

JsonHeaders ==
  PyDict(<<<<S(<<"C", "o", "n", "t", "e", "n", "t", "-", "T", "y", "p", "e">>),
             PyStr(ApplicationJson)>> >>)

PlainHeaders ==
  PyDict(<<<<ContentTypeKey,
             PyStr(S(<<"t", "e", "x", "t", "/", "p", "l", "a", "i", "n">>))>> >>)

HeaderMaps == {Missing, JsonHeaders, PlainHeaders}

Queries == {Missing, None, PyDict(<<<<S(<<"q">>), PyStr(S(<<"1">>))>> >>)}

\* {"a":1}
BodyJsonText == PyStr(S(<<"{", "\"", "a", "\"", ":", "1", "}">>))

\* base64 of {"a":1}
BodyJsonB64 ==
  PyStr(S(<<"e", "y", "J", "h", "I", "j", "o", "x", "f", "Q", "=", "=">>))

\* base64 of {b, which is UTF-8 and no JSON
BodyBadJsonB64 == PyStr(S(<<"e", "2", "I", "=">>))

\* base64 of the single byte 0xff, which is no UTF-8
BodyBadUtf8B64 == PyStr(S(<<"/", "w", "=", "=">>))

\* one base64 digit: no base64, and no JSON either
BodyOneDigit == PyStr(S(<<"a">>))

Bodies ==
  {Missing, BodyJsonText, BodyJsonB64, BodyBadJsonB64, BodyBadUtf8B64,
   BodyOneDigit}

Base64Flags == {Missing, PyBool(TRUE)}

Field(k, x) == IF x.t = "missing" THEN <<>> ELSE <<<<k, x>>>>

EventOf(rc, hm, rp, p, hs, q, b, f) ==
  PyDict(Field("requestContext", rc) \o Field("httpMethod", hm)
           \o Field("rawPath", rp) \o Field("path", p)
           \o Field("headers", hs) \o Field("queryStringParameters", q)
           \o Field("body", b) \o Field("isBase64Encoded", f))

\* the canonical fields of the direct calls of route
Methods ==
  {GET, POST, PUT, DELETE, OPTIONS, PyStr(S(<<"P", "A", "T", "C", "H">>)),
   PyStr(S(<<"H", "E", "A", "D">>))}

CanonicalPaths ==
  (RawPaths \cup Paths \cup
     {Slash, PyStr(S(<<"/", "i", "t", "e", "m", "s">>)),
      PyStr(S(<<"/", "u", "n", "k", "n", "o", "w", "n">>)),
      PyStr(S(<<"/", "i", "t", "e", "m", "s", "/", "a", "/", "i", "t", "e",
                "m", "s", "/", "b">>)),
      PyStr(S(<<"/", "e", "c", "h", "o", "/">>)),
      PyStr(S(<<"/", "i", "t", "e", "m", "s", "/", "4", "2">>))})
    \ {Missing, PyInt(5)}

ParsedBodies == {None, PyDict(<<<<PyStr(S(<<"a">>)), PyInt(1)>> >>)}

\* the arguments of the direct calls of _response
ResponseStatuses == {200, 204}

ResponseBodies ==
  {None, PyText(""), PyText("ok"), PyDict(<<<<PyText("a"), PyInt(1)>> >>)}

ResponseHeaders ==
  {None, EmptyDict,
   PyDict(<<<<"Access-Control-Allow-Origin", PyText("https://example.com")>> >>),
   PyDict(<<<<"Content-Type", PyText("application/json")>>,
            <<"Access-Control-Allow-Methods", PyText("GET")>> >>)}

\* what the caller may write into the headers of a response it holds
Alterations ==
  {<<"Access-Control-Allow-Origin", PyText("https://example.com")>>}

(***************************************************************************)
(* The state: the heap of header dicts, where the caller stands (idle, or  *)
(* holding a returned response), the call it made, what _parse_event gave  *)
(* inside that call, and what the call gave back.                          *)
(***************************************************************************)
NoCall == [fn |-> "none"]

NoValue == [t |-> "none"]

Init ==
  /\ heap = <<CorsLiteral>>
  /\ pc = "idle"
  /\ call = NoCall
  /\ request = NoValue
  /\ result = NoValue

\* the caller receives r, the outcome of the call c
Return(c, req, r) ==
  /\ call' = c
  /\ request' = req
  /\ heap' = IF IsRaise(r) THEN heap ELSE r.heap
  /\ result' = IF IsRaise(r) THEN r ELSE r.ret
  /\ pc' = "returned"

LambdaCall(event) == [fn |-> "lambda_handler", event |-> event, alters |-> 0]

ResponseCall(status, body, headers, is_base64) ==
  [fn |-> "_response", status |-> status, body |-> body,
   headers |-> headers, is_base64 |-> is_base64, alters |-> 0]

\* the caller invokes lambda_handler(event, context)
Invoke ==
  /\ pc = "idle"
  /\ \E rc \in RequestContexts, hm \in HttpMethods, rp \in RawPaths,
        p \in Paths, hs \in HeaderMaps, q \in Queries, b \in Bodies,
        f \in Base64Flags, now \in 0..MaxTime :
       Return(LambdaCall(EventOf(rc, hm, rp, p, hs, q, b, f)),
              _parse_event(EventOf(rc, hm, rp, p, hs, q, b, f)),
              lambda_handler(heap, EventOf(rc, hm, rp, p, hs, q, b, f), now))

RouteCall(method, path, query, body_json) ==
  [fn |-> "route", method |-> method, path |-> path, query |-> query,
   body_json |-> body_json, alters |-> 0]

\* route is called with the canonical fields of a request
Route ==
  /\ pc = "idle"
  /\ \E method \in Methods, path \in CanonicalPaths,
        body_json \in ParsedBodies, now \in 0..MaxTime :
       Return(RouteCall(method, path, EmptyDict, body_json), NoValue,
              route(heap, method, path, EmptyDict, body_json, now))

\* a handler calls _response with headers of its own
Respond ==
  /\ pc = "idle"
  /\ \E status \in ResponseStatuses, body \in ResponseBodies,
        headers \in ResponseHeaders, is_base64 \in BOOLEAN :
       Return(ResponseCall(status, body, headers, is_base64), NoValue,
              _response(heap, status, body, headers, is_base64))

\* the caller writes into the headers dict of the response it holds
Alter ==
  /\ pc = "returned"
  /\ result.t = "return"
  /\ call.alters < MaxAlter
  /\ \E a \in Alterations :
       heap' = [heap EXCEPT ![result.headers] = DictSet(@, a[1], a[2])]
  /\ call' = [call EXCEPT !.alters = @ + 1]
  /\ UNCHANGED <<pc, request, result>>

\* the caller drops the response; the dicts nothing refers to are freed
Discard ==
  /\ pc = "returned"
  /\ heap' = <<heap[CORS_HEADERS]>>
  /\ pc' = "idle"
  /\ call' = NoCall
  /\ request' = NoValue
  /\ result' = NoValue

Next == Invoke \/ Respond \/ Alter \/ Discard

Spec == Init /\ [][Next]_vars

\* the router on its own, under every canonical method and path
RouteNext == Route \/ Alter \/ Discard

RouteSpec == Init /\ [][RouteNext]_vars

(***************************************************************************)
(* What the caller holds.                                                  *)
(***************************************************************************)
\* route has returned to a direct call
Routed == pc = "returned" /\ call.fn = "route"

\* lambda_handler has come back to the caller
Handled == pc = "returned" /\ call.fn = "lambda_handler"

\* _response has returned to a direct call
Responded == pc = "returned" /\ call.fn = "_response"

\* the response in hand is as it was returned
Untouched == call.alters = 0

Returned(status, text) ==
  /\ result.t = "return"
  /\ result.statusCode = status
  /\ result.body = PyText(text)

\* the text of the three fixed bodies, and of the 404 body
HomeText ==
  "{\"message\": \"Hello from Lambda webserver \\ud83d\\udc4b\", "
    \o "\"paths\": [\"/\", \"/health\", \"/echo\", \"/items/{id}\"]}"

EchoText(body_json) ==
  "{\"received\": " \o Dumps(body_json)
    \o ", \"note\": \"POST JSON to /echo and I\\u2019ll send it back.\"}"

NotFoundText(method, path) ==
  "{\"error\": \"Not found\", \"method\": \"" \o Text(method.v)
    \o "\", \"path\": \"" \o Text(path.v) \o "\"}"

HealthText(now) ==
  "{\"ok\": true, \"time\": \"" \o IsoFormat(now) \o "\"}"

\* the remainder of a path after its first seven characters, /items/
AfterItems(path) == SubSeq(path.v, 8, Len(path.v))

UnderItems(path) == StartsWith(path.v, ItemsPrefix)

(***************************************************************************)
(* C1.  For every canonical method, path, query and parsed body, route     *)
(* returns one response, that of the first rule that matches in the order  *)
(* GET /health (200), GET / (200), POST /echo (200), the /items/ prefix    *)
(* with GET, PUT or DELETE, OPTIONS (204); when no rule matches it         *)
(* returns 404 with the body {error: "Not found", method, path} that       *)
(* carries the method and path it was given.                               *)
(***************************************************************************)
C1_FirstMatch ==
  Routed =>
    /\ result.t = "return"
    /\ IF call.method = GET /\ call.path = HealthPath
       THEN \E now \in 0..MaxTime : Returned(200, HealthText(now))
       ELSE IF call.method = GET /\ call.path = Slash
       THEN Returned(200, HomeText)
       ELSE IF call.method = POST /\ call.path = EchoPath
       THEN Returned(200, EchoText(call.body_json))
       ELSE IF UnderItems(call.path) /\ call.method \in {GET, PUT, DELETE}
       THEN result.statusCode \in {200, 204, 400}
       ELSE IF call.method = OPTIONS
       THEN Returned(204, "")
       ELSE Returned(404, NotFoundText(call.method, call.path))

\* no rule matched GET /unknown: the 404 names the method and the path
C1_Witness ==
  /\ Routed
  /\ call.method = GET
  /\ call.path = PyStr(S(<<"/", "u", "n", "k", "n", "o", "w", "n">>))
  /\ Returned(404,
       "{\"error\": \"Not found\", \"method\": \"GET\", \"path\": \"/unknown\"}")

(***************************************************************************)
(* C6.  A request whose canonical method is OPTIONS gets status 204 and    *)
(* an empty body whatever its path, also when the path is /health, / or    *)
(* /echo or starts with /items/: no earlier rule takes an OPTIONS request. *)
(***************************************************************************)
C6_OptionsAnyPath == (Routed /\ call.method = OPTIONS) => Returned(204, "")

\* OPTIONS on a path under /items/ with an empty id
C6_Witness ==
  /\ Routed
  /\ call.method = OPTIONS
  /\ call.path = PyStr(ItemsPrefix)
  /\ Returned(204, "")

(***************************************************************************)
(* C7.  For a path that starts with /items/ and a method among GET, PUT    *)
(* and DELETE, item_id is the whole remainder of the path after the first  *)
(* /items/: an empty item_id gives 400 {error: "Missing item id"} for all  *)
(* three methods; otherwise GET gives 200 {id, name: "Item " + id}, PUT    *)
(* gives 200 {updated: id, body: parsed body}, DELETE gives 204 and an     *)
(* empty body.  Any other method but OPTIONS gives 404 under /items/.      *)
(***************************************************************************)
C7_Items ==
  (Routed /\ UnderItems(call.path)) =>
    LET id == Text(AfterItems(call.path))
    IN IF call.method \in {GET, PUT, DELETE}
       THEN IF id = ""
            THEN Returned(400, "{\"error\": \"Missing item id\"}")
            ELSE IF call.method = GET
            THEN Returned(200, "{\"id\": \"" \o id \o "\", \"name\": \"Item "
                                 \o id \o "\"}")
            ELSE IF call.method = PUT
            THEN Returned(200, "{\"updated\": \"" \o id \o "\", \"body\": "
                                 \o Dumps(call.body_json) \o "}")
            ELSE Returned(204, "")
       ELSE call.method # OPTIONS => result.statusCode = 404

\* the id of /items/a/items/b is everything after the first /items/
C7_Witness ==
  /\ Routed
  /\ call.method = GET
  /\ Text(call.path.v) = "/items/a/items/b"
  /\ Returned(200, "{\"id\": \"a/items/b\", \"name\": \"Item a/items/b\"}")

(***************************************************************************)
(* C10.  The five rule guards of route are pairwise disjoint: no method    *)
(* and path satisfy two of them, so trying the rules in any other order    *)
(* gives the same response for every request.                              *)
(***************************************************************************)
\* the guard of the k-th if statement
Guard(k, method, path) ==
  CASE k = 1 -> HealthRule(method, path)
    [] k = 2 -> HomeRule(method, path)
    [] k = 3 -> EchoRule(method, path)
    [] k = 4 -> ItemsRule(method, path)
    [] k = 5 -> OptionsRule(method, path)

\* the 120 orders of the five rules
Orders ==
  {o \in [1..5 -> 1..5] : \A i, j \in 1..5 : o[i] = o[j] => i = j}

\* C10: at most one guard holds of a request, and every order of the five
\* rules gives the response route gives
C10_Disjoint ==
  Routed =>
    /\ Cardinality({k \in 1..5 : Guard(k, call.method, call.path)}) <= 1
    /\ \E now \in 0..MaxTime :
         \A o \in Orders :
           RouteInOrder(o, <<CorsLiteral>>, call.method, call.path,
                        call.query, call.body_json, now).ret = result

\* an OPTIONS request for the path of the first rule: one guard holds
C10_Witness ==
  /\ Routed
  /\ call.method = OPTIONS
  /\ call.path = HealthPath
  /\ {k \in 1..5 : Guard(k, call.method, call.path)} = {5}
  /\ Returned(204, "")

(***************************************************************************)
(* C2.  lambda_handler returns a response envelope for every event and     *)
(* lets no fault through to the caller: whenever _parse_event or route     *)
(* raises, the result is a response with status 500 whose body holds the   *)
(* message "Internal Server Error" and the short string of the fault, and  *)
(* nothing else of the fault.                                              *)
(***************************************************************************)
ErrorText(msg) ==
  "{\"error\": \"Internal Server Error\", \"detail\": \"" \o msg \o "\"}"

\* what lines 113-114 do with the event of the call in hand
Tried == TryBlock(<<CorsLiteral>>, call.event, 0)

\* C2: lambda_handler always returns a response; a fault of the try block
\* gives status 500 and the body of the two entries error and detail
C2_NoFaultEscapes ==
  Handled =>
    /\ result.t = "return"
    /\ request.t = "raise" => Returned(500, ErrorText(request.msg))
    /\ IsRaise(Tried) => Returned(500, ErrorText(Tried.msg))

\* route raised on the path 5, which is no str, after a clean parse
C2_Witness ==
  /\ Handled
  /\ request.t = "ok"
  /\ request.path = PyInt(5)
  /\ Returned(500,
       ErrorText("'int' object has no attribute 'startswith'"))

(***************************************************************************)
(* C3.  A JSON body that fails to parse is never an error: for every event *)
(* whose content-type header contains application/json and whose decoded   *)
(* body is not empty and cannot be decoded as JSON, plain or base64, the   *)
(* normalizer raises no fault and gives an absent parsed body, and         *)
(* lambda_handler answers by the normal route and not with 500.            *)
(***************************************************************************)
\* the event's content-type header contains application/json
JsonDeclared(event) ==
  /\ ~IsRaise(ParseHeaders(event))
  /\ DictGet(ParseHeaders(event), ContentTypeKey, EmptyStr).t = "str"
  /\ Contains(DictGet(ParseHeaders(event), ContentTypeKey, EmptyStr).v,
              ApplicationJson)

\* the body decodes to bytes, not none, that are no JSON text
NotJson(bytes) ==
  /\ ~IsRaise(bytes)
  /\ Truthy(bytes)
  /\ \/ IsRaise(Utf8Decode(bytes.v))
     \/ IsRaise(Loads(Utf8Decode(bytes.v).v))

\* nothing but the body is wrong with the event
SoundButBody(event) ==
  /\ ~IsRaise(ParseMethod(event))
  /\ ParseMethod(event).t = "str"
  /\ ParsePath(event).t = "str"

\* C3: a declared JSON body that is no JSON raises no fault, parses to
\* none and is not answered with 500
C3_ParseFailureIsNoError ==
  (/\ Handled
   /\ JsonDeclared(call.event)
   /\ NotJson(ParseBodyBytes(call.event))
   /\ SoundButBody(call.event)) =>
    /\ request.t = "ok"
    /\ request.body_json = None
    /\ result.t = "return"
    /\ result.statusCode # 500

(***************************************************************************)
(* C4.  For every event of either shape in which any of the fields         *)
(* requestContext.http.method, httpMethod, rawPath, path, headers,         *)
(* queryStringParameters, body and isBase64Encoded is missing,             *)
(* _parse_event raises no fault and gives the defaults: the method is the  *)
(* shape-A method if given, else httpMethod if given, else "GET", in upper *)
(* case; the path is rawPath, else path, else "/"; headers and query       *)
(* default to empty mappings, the body to empty bytes and the parsed body  *)
(* to none.  The fields that are present are of either shape: mappings for *)
(* requestContext, http and headers, strings for the method and the body,  *)
(* and base64 in a body flagged as base64.                                 *)
(***************************************************************************)
Has(event, k) == DictHas(event, k)

OfEitherShape(event) ==
  /\ DictGet(event, "requestContext", EmptyDict).t = "dict"
  /\ DictGet(DictGet(event, "requestContext", EmptyDict), "http",
             EmptyDict).t = "dict"
  /\ DictGet(event, "httpMethod", GET).t = "str"
  /\ DictGet(event, "headers", EmptyDict).t = "dict"
  /\ DictGet(event, "body", EmptyStr).t = "str"
  /\ ~IsRaise(ParseBodyBytes(event))

ShapeAMethod(event) ==
  DictGet(DictGet(DictGet(event, "requestContext", EmptyDict), "http",
                  EmptyDict), "method", Missing)

MethodDefault(event) ==
  IF ShapeAMethod(event).t = "str" THEN PyStr(Upper(ShapeAMethod(event).v))
  ELSE IF Has(event, "httpMethod")
  THEN PyStr(Upper(DictGet(event, "httpMethod", Missing).v))
  ELSE PyStr(S(<<"G", "E", "T">>))

PathDefault(event) ==
  IF Has(event, "rawPath") THEN DictGet(event, "rawPath", Missing)
  ELSE IF Has(event, "path") THEN DictGet(event, "path", Missing)
  ELSE PyStr(S(<<"/">>))

\* the fields of the request are the documented defaults
DefaultsGiven(event) ==
  /\ request.method = MethodDefault(event)
  /\ request.path = PathDefault(event)
  /\ ~Has(event, "headers") => request.headers = PyDict(<<>>)
  /\ ~Has(event, "queryStringParameters") => request.query = PyDict(<<>>)
  /\ ~Has(event, "body") =>
       /\ request.body_bytes = PyBytes(<<>>)
       /\ request.body_json = None

\* C4: _parse_event raises no fault on an event of either shape, whatever
\* is missing, and gives the documented defaults
C4_NoFaultAndDefaults ==
  (Handled /\ OfEitherShape(call.event)) =>
    /\ request.t = "ok"
    /\ DefaultsGiven(call.event)

\* the part of C4 that holds: the defaults, for every event of either shape
\* but those that declare JSON and carry bytes that are no UTF-8 text
C4_Defaults ==
  (/\ Handled
   /\ OfEitherShape(call.event)
   /\ ~(/\ JsonDeclared(call.event)
        /\ Truthy(ParseBodyBytes(call.event))
        /\ IsRaise(Utf8Decode(ParseBodyBytes(call.event).v)))) =>
    /\ request.t = "ok"
    /\ DefaultsGiven(call.event)


(***************************************************************************)
(* C5.  Every response of lambda_handler, on every route and on the 500    *)
(* path, has headers that hold the three fixed cross-origin entries;       *)
(* headers passed to _response replace a base entry of the same key only   *)
(* and leave the other base entries in place.                              *)
(***************************************************************************)
AllowOrigin == <<"Access-Control-Allow-Origin", PyText("*")>>

AllowMethods ==
  <<"Access-Control-Allow-Methods",
    PyText("GET,POST,PUT,PATCH,DELETE,OPTIONS")>>

AllowHeaders ==
  <<"Access-Control-Allow-Headers",
    PyText("Content-Type,Authorization,X-Requested-With")>>

FixedHeaders == {AllowOrigin, AllowMethods, AllowHeaders}

\* the headers dict of the response in hand
HeadersInHand == heap[result.headers]

\* the headers the direct call passed: headers or {}
Supplied == Or(call.headers, EmptyDict)

\* C5: the three fixed entries are in the headers of every response of
\* lambda_handler; headers passed to _response replace same-key entries only
C5_FixedHeaders ==
  /\ (Handled /\ Untouched) =>
       /\ result.t = "return"
       /\ \A e \in FixedHeaders : DictGet(HeadersInHand, e[1], Missing) = e[2]
  /\ (Responded /\ Untouched) =>
       /\ \A e \in FixedHeaders :
            DictGet(HeadersInHand, e[1], Missing)
              = DictGet(Supplied, e[1], e[2])
       /\ \A i \in 1..Len(Supplied.v) :
            DictGet(HeadersInHand, Supplied.v[i][1], Missing)
              = Supplied.v[i][2]

\* a call that replaces Allow-Methods and adds Content-Type
C5_Witness ==
  /\ Responded
  /\ Untouched
  /\ DictGet(HeadersInHand, "Access-Control-Allow-Methods", Missing)
       = PyText("GET")
  /\ DictGet(HeadersInHand, "Content-Type", Missing)
       = PyText("application/json")
  /\ DictGet(HeadersInHand, AllowOrigin[1], Missing) = AllowOrigin[2]
  /\ DictGet(HeadersInHand, AllowHeaders[1], Missing) = AllowHeaders[2]

(***************************************************************************)
(* C8.  Every response of lambda_handler is a well-formed envelope:        *)
(* statusCode is one of 200, 204, 400, 404, 500; isBase64Encoded is false; *)
(* body is a string, the empty string exactly when statusCode is 204.      *)
(***************************************************************************)
C8_Envelope ==
  Handled =>
    /\ result.t = "return"
    /\ result.statusCode \in {200, 204, 400, 404, 500}
    /\ result.isBase64Encoded = FALSE
    /\ result.body.t = "text"
    /\ (result.body.v = "") <=> (result.statusCode = 204)

\* DELETE /items/7 through the handler
C8_Witness ==
  /\ Handled
  /\ request.t = "ok"
  /\ request.method = DELETE
  /\ request.path.t = "str"
  /\ UnderItems(request.path)
  /\ Returned(204, "")
  /\ result.isBase64Encoded = FALSE

(***************************************************************************)
(* C9.  Invocations are independent and stateless: the response to an      *)
(* event (the /health time apart) is the same whatever calls came before,  *)
(* no call changes the module's CORS_HEADERS, and each response has a      *)
(* headers mapping of its own, so that altering a returned response does   *)
(* not change a later one.                                                 *)
(***************************************************************************)
C9_Stateless ==
  /\ heap[CORS_HEADERS] = CorsLiteral
  /\ Handled =>
       /\ result.t = "return"
       /\ result.headers # CORS_HEADERS
       /\ Untouched => HeadersInHand = CorsLiteral
       /\ \E now \in 0..MaxTime :
            result = lambda_handler(<<CorsLiteral>>, call.event, now).ret

\* the caller has altered the response it holds, and only that
C9_Witness ==
  /\ Handled
  /\ call.alters = 1
  /\ HeadersInHand # CorsLiteral
  /\ heap[CORS_HEADERS] = CorsLiteral

=============================================================================
